---- MODULE Spec2Model ----
(***************************************************************************)
(* picolibrary: the Microchip MCP23008 register cache, driver and pin      *)
(* handles, as a state machine.                                            *)
(*                                                                         *)
(* The device is a set of 8-bit registers behind an I2C bus.  The driver   *)
(* keeps a register cache and offers, for every register R, the cached     *)
(* read R(), the forced read read_R() and the write write_R(v).  Pin       *)
(* handles borrow the driver and own a mask; their operations are          *)
(* read-modify-write sequences of driver calls.                            *)
(***************************************************************************)
EXTENDS Integers, Sequences, FiniteSets, TLC

VARIABLES
    kind,       \* the pin class of the handles of this run
    dev,        \* the device's registers: [Registers -> Byte]
    cache,      \* the driver's register cache: [Registers -> Byte]
    lastGood,   \* history: per register, the byte of the most recent successful write_R / read_R
    last,       \* the operation that just returned: its result and the driver calls it made
    pins,       \* the pin handles: [Handles -> [alive, driver, mask, how]]
    race,       \* the two-step read-modify-write of concurrently operated pins
    second,     \* the device and the cache of a second driver, "E": [dev, cache]
    probe       \* the call of a function of the library under examination, and its result

vars == <<kind, dev, cache, lastGood, last, pins, race, second, probe>>

----------------------------------------------------------------------------
\* Bytes and bit operations (std::uint8_t).

ByteWidth == 8

ByteMax == (2 ^ ByteWidth) - 1

Byte == 0 .. ByteMax

Bit(x, i) == (x \div (2 ^ i)) % 2

\* one bit of x & y, x | y, x ^ y, in its place
AndBit(x, y, i) == (Bit(x, i) * Bit(y, i)) * (2 ^ i)

OrBit(x, y, i) == (IF Bit(x, i) + Bit(y, i) > 0 THEN 1 ELSE 0) * (2 ^ i)

XorBit(x, y, i) == ((Bit(x, i) + Bit(y, i)) % 2) * (2 ^ i)

BitAnd(x, y) ==
    AndBit(x, y, 0) + AndBit(x, y, 1) + AndBit(x, y, 2) + AndBit(x, y, 3)
        + AndBit(x, y, 4) + AndBit(x, y, 5) + AndBit(x, y, 6) + AndBit(x, y, 7)

BitOr(x, y) ==
    OrBit(x, y, 0) + OrBit(x, y, 1) + OrBit(x, y, 2) + OrBit(x, y, 3)
        + OrBit(x, y, 4) + OrBit(x, y, 5) + OrBit(x, y, 6) + OrBit(x, y, 7)

BitXor(x, y) ==
    XorBit(x, y, 0) + XorBit(x, y, 1) + XorBit(x, y, 2) + XorBit(x, y, 3)
        + XorBit(x, y, 4) + XorBit(x, y, 5) + XorBit(x, y, 6) + XorBit(x, y, 7)

\* ~x, truncated to std::uint8_t
BitNot(x) == ByteMax - x

----------------------------------------------------------------------------
\* The register set and the register cache.

Registers ==
    { "IODIR", "IPOL", "GPINTEN", "DEFVAL", "INTCON", "IOCON", "GPPU", "GPIO", "OLAT" }

\* power-on-reset value of a register: direction all inputs, everything else 0
ResetValue(R) == IF R = "IODIR" THEN ByteMax ELSE 0

ResetState == [R \in Registers |-> ResetValue(R)]

\* Register_Cache::R()
CacheGet(c, R) == c[R]

\* cache_R( value ) that caches the value as the output latch too
CacheSetAndLatch(c, R, v) == [c EXCEPT ![R] = v, !["OLAT"] = v]

\* Register_Cache::cache_R( value )
CacheSet(c, R, v) == [c EXCEPT ![R] = v]

----------------------------------------------------------------------------
\* The bus transactions of the driver.  A transaction is a sequence of bus
\* controller calls; any one of them may return an error, which ends the
\* transaction.  fail = 0: no call fails; fail = i: the i-th call fails.

WriteSteps == << "address", "write", "stop" >>

ReadSteps == << "address", "read", "stop" >>

Failures == 0 .. 3

\* the bus controller calls a transaction made, the failing one included
BusCalls(steps, fail) == IF fail = 0 THEN steps ELSE SubSeq(steps, 1, fail)

\* the result of a transaction: "ok", or the bus call that returned the error
Outcome(steps, fail) == IF fail = 0 THEN "ok" ELSE steps[fail]

\* the data byte has been transferred once the transaction is past its second call
Transferred(fail) == fail = 0 \/ fail > 2

IsError(res) == res # "ok"

\* R() that asks the device instead of the cache
DriverGetFromDevice(d, c, R) ==
    [ dev   |-> d,
      cache |-> c,
      call  |-> [ fn |-> "get", reg |-> R, val |-> d[R], pre |-> CacheGet(c, R), at |-> d[R],
                  to |-> d[R],
                  res |-> "ok", bus |-> << >> ] ]

\* Driver::R(): the cached read.  No bus call, no error.
DriverGet(d, c, R) ==
    [ dev   |-> d,
      cache |-> c,
      call  |-> [ fn |-> "get", reg |-> R, val |-> CacheGet(c, R), pre |-> CacheGet(c, R), at |-> d[R],
                  to |-> d[R],
                  res |-> "ok", bus |-> << >> ] ]

\* write_R that caches the byte whatever the transaction's result
DriverWriteCachesAlways(d, c, R, v, fail) ==
    [ dev   |-> IF Transferred(fail) THEN [d EXCEPT ![R] = v] ELSE d,
      cache |-> CacheSet(c, R, v),
      call  |-> [ fn |-> "write", reg |-> R, val |-> v, pre |-> CacheGet(c, R), at |-> d[R],
                  to |-> IF Transferred(fail) THEN v ELSE d[R],
                  res |-> Outcome(WriteSteps, fail), bus |-> BusCalls(WriteSteps, fail) ] ]

\* Driver::write_R( v ): the write transaction, then cache_R( v ) if it succeeded.
DriverWrite(d, c, R, v, fail) ==
    [ dev   |-> IF Transferred(fail) THEN [d EXCEPT ![R] = v] ELSE d,
      cache |-> IF fail = 0 THEN CacheSet(c, R, v) ELSE c,
      call  |-> [ fn |-> "write", reg |-> R, val |-> v, pre |-> CacheGet(c, R), at |-> d[R],
                  to |-> IF Transferred(fail) THEN v ELSE d[R],
                  res |-> Outcome(WriteSteps, fail), bus |-> BusCalls(WriteSteps, fail) ] ]

\* read_R that returns the byte without caching it
DriverReadNoCache(d, c, R, fail) ==
    [ dev   |-> d,
      cache |-> c,
      call  |-> [ fn |-> "read", reg |-> R, val |-> IF fail = 0 THEN d[R] ELSE -1,
                  pre |-> CacheGet(c, R), at |-> d[R], to |-> d[R],
                  res |-> Outcome(ReadSteps, fail), bus |-> BusCalls(ReadSteps, fail) ] ]

\* Driver::read_R(): the read transaction, then cache_R( byte read ) if it
\* succeeded.  val is the byte returned, -1 when an error is returned.
DriverRead(d, c, R, fail) ==
    [ dev   |-> d,
      cache |-> IF fail = 0 THEN CacheSet(c, R, d[R]) ELSE c,
      call  |-> [ fn |-> "read", reg |-> R, val |-> IF fail = 0 THEN d[R] ELSE -1,
                  pre |-> CacheGet(c, R), at |-> d[R], to |-> d[R],
                  res |-> Outcome(ReadSteps, fail), bus |-> BusCalls(ReadSteps, fail) ] ]

\* history of confirmed bytes after a driver call
Confirm(g, call) ==
    IF call.fn \in { "write", "read" } /\ call.res = "ok"
        THEN [g EXCEPT ![call.reg] = call.val]
        ELSE g

----------------------------------------------------------------------------
\* Initial state: device and cache at their power-on-reset values, no pin
\* handle constructed, nothing called yet.

Handles == { "A", "B" }

\* Push_Pull_IO_Pin, Internally_Pulled_Up_Input_Pin
Kinds == { "ppio", "ipui" }

NoPin == [ alive |-> FALSE, driver |-> "none", mask |-> 0, how |-> "none" ]

NoOp == [ op |-> "none", pin |-> "none", src |-> "none", was |-> NoPin, arg |-> "none", res |-> "ok", ret |-> -1,
          calls |-> << >> ]

NoRace == [ on |-> FALSE ]

\* the second driver after construction
NoSecond == [ dev |-> ResetState, cache |-> ResetState ]

NoProbe == [ fn |-> "none" ]

Init ==
    /\ kind \in Kinds
    /\ dev = ResetState
    /\ cache = ResetState
    /\ lastGood = ResetState
    /\ last = NoOp
    /\ pins = [h \in Handles |-> NoPin]
    /\ race = NoRace
    /\ second = NoSecond
    /\ probe = NoProbe

----------------------------------------------------------------------------
\* The driver operated directly by one caller.

\* the bytes a caller writes
ByteValues == { 0, 165 }

\* at most MaxDirty registers are away from their power-on-reset state
MaxDirty == 1

Dirty(d, c) == { R \in Registers : d[R] # ResetValue(R) \/ c[R] # ResetValue(R) }

WithinDirtyBound(d, c) == Cardinality(Dirty(d, c)) <= MaxDirty

DriverStep(r, op) ==
    /\ WithinDirtyBound(r.dev, r.cache)
    /\ dev' = r.dev
    /\ cache' = r.cache
    /\ lastGood' = Confirm(lastGood, r.call)
    /\ last' = [ op |-> op, pin |-> "none", src |-> "none", was |-> NoPin, arg |-> "none",
                 res |-> r.call.res, ret |-> r.call.val, calls |-> << r.call >> ]
    /\ UNCHANGED << kind, pins, race, second, probe >>

CallGet(R) == DriverStep(DriverGet(dev, cache, R), "get")

CallWrite(R, v, fail) == DriverStep(DriverWrite(dev, cache, R, v, fail), "write")

CallRead(R, fail) == DriverStep(DriverRead(dev, cache, R, fail), "read")

NextDriver ==
    \/ \E R \in Registers : CallGet(R)
    \/ \E R \in Registers, v \in ByteValues, fail \in Failures : CallWrite(R, v, fail)
    \/ \E R \in Registers, fail \in Failures : CallRead(R, fail)

\* no pin handle is involved; the pin class is of no account
InitDriver == Init /\ kind = "ppio"

SpecDriver == InitDriver /\ [][NextDriver]_vars

\* the driver call of a directly issued driver operation
TheCall == last.calls[1]

\* C1: a write_R(v) that succeeded leaves R() = v; a write_R(v) that failed
\* leaves R() at the value it had before the call.
WriteThenCachedRead ==
    last.op = "write" =>
        IF last.res = "ok"
            THEN CacheGet(cache, TheCall.reg) = TheCall.val
            ELSE CacheGet(cache, TheCall.reg) = TheCall.pre

\* a write_R(v) of a new byte failed at stop(), after the byte was transferred
WriteFailedAfterTransfer ==
    /\ last.op = "write"
    /\ last.res = "stop"
    /\ TheCall.pre # TheCall.val
    /\ dev[TheCall.reg] = TheCall.val

\* C2: the cache holds, for every register, the byte the device holds.
CacheMirrorsDevice == \A R \in Registers : cache[R] = dev[R]

\* C3: a read_R() that succeeded returns the device's byte and leaves it in the
\* cache; a read_R() that failed returns no byte and leaves the cache as it was.
ForcedReadContract ==
    last.op = "read" =>
        IF last.res = "ok"
            THEN /\ last.ret = dev[TheCall.reg]
                 /\ CacheGet(cache, TheCall.reg) = last.ret
            ELSE /\ last.ret = -1
                 /\ CacheGet(cache, TheCall.reg) = TheCall.pre

\* a read_R() succeeded and brought a byte the cache did not hold
ForcedReadRefreshed ==
    /\ last.op = "read"
    /\ last.res = "ok"
    /\ TheCall.pre # last.ret

\* C4: R() makes no bus call, returns no error, and returns the byte of the
\* most recent successful write_R or read_R (the reset value if there was none).
CachedReadIsLastConfirmed ==
    last.op = "get" =>
        /\ last.res = "ok"
        /\ TheCall.bus = << >>
        /\ last.ret = lastGood[TheCall.reg]

\* R() after a successful write and a later failed write of another byte
CachedReadAfterFailure ==
    /\ last.op = "get"
    /\ lastGood[TheCall.reg] # ResetValue(TheCall.reg)
    /\ dev[TheCall.reg] # lastGood[TheCall.reg]

----------------------------------------------------------------------------
\* Pin handles over the driver.  A handle holds a pointer to the driver
\* (driver = "D", or "none" for a default-constructed or moved-from handle)
\* and a mask.  how records the way the handle got its present contents.

\* the masks handles are constructed with
Masks == { 0, 4 }

\* the bus outcomes pin operations are run against: no failure, a failure
\* before the data byte (address) and one after it (stop)
PinFailures == { 0, 1, 3 }

\* a pin operation in progress: the device, the cache and the driver calls so far
Begin == [ dev |-> dev, cache |-> cache, calls |-> << >> ]

\* a pin operation in progress on the driver the pin p holds
BeginOf(p) ==
    IF p.driver = "E" THEN [ dev |-> second.dev, cache |-> second.cache, calls |-> << >> ]
    ELSE Begin

\* the devices and caches of the two drivers after the operation r of the pin p
Drivers(p, r) ==
    /\ dev' = IF p.driver = "E" THEN dev ELSE r.dev
    /\ cache' = IF p.driver = "E" THEN cache ELSE r.cache
    /\ second' = IF p.driver = "E" THEN [ dev |-> r.dev, cache |-> r.cache ] ELSE second

Then(r, x) == [ dev |-> x.dev, cache |-> x.cache, calls |-> Append(r.calls, x.call) ]

\* the result of the driver call made last
Result(r) == r.calls[Len(r.calls)].res

\* the byte a read-modify-write writes that forgets the byte it read
ModifiedClobbering(old, mask, how) ==
    CASE how = "set"    -> mask
      [] how = "clear"  -> 0
      [] how = "toggle" -> BitXor(old, mask)

\* the byte a read-modify-write writes: old | mask, old & ~mask, old ^ mask
Modified(old, mask, how) ==
    CASE how = "set"    -> BitOr(old, mask)
      [] how = "clear"  -> BitAnd(old, BitNot(mask))
      [] how = "toggle" -> BitXor(old, mask)

\* the write made a second time when it returned an error
WriteBackRetrying(g, R, mask, how, fail) ==
    IF fail = 0
        THEN Then(g, DriverWrite(g.dev, g.cache, R,
                                 Modified(g.calls[Len(g.calls)].val, mask, how), 0))
        ELSE Then(Then(g, DriverWrite(g.dev, g.cache, R,
                                      Modified(g.calls[Len(g.calls)].val, mask, how), fail)),
                  DriverWrite(g.dev, g.cache, R,
                              Modified(g.calls[Len(g.calls)].val, mask, how), 0))

\* driver.write_R( old <op> mask ), old being the byte the call before returned
WriteBack(g, R, mask, how, fail) ==
    Then(g, DriverWrite(g.dev, g.cache, R,
                        Modified(g.calls[Len(g.calls)].val, mask, how), fail))

\* the read-modify-write that asks the device for the byte
ModifyForced(r, R, mask, how, fail) ==
    WriteBack(Then(r, DriverRead(r.dev, r.cache, R, 0)), R, mask, how, fail)

\* driver.write_R( driver.R() <op> mask )
Modify(r, R, mask, how, fail) ==
    WriteBack(Then(r, DriverGet(r.dev, r.cache, R)), R, mask, how, fail)

\* Driver::enable_pull_up( mask ), Driver::disable_pull_up( mask )
DriverEnablePullUp(r, mask, fail) == Modify(r, "GPPU", mask, "set", fail)

DriverDisablePullUp(r, mask, fail) == Modify(r, "GPPU", mask, "clear", fail)

\* state() that takes the level from the cache
DriverStateCached(r, fail) == Then(r, DriverGet(r.dev, r.cache, "GPIO"))

\* Driver::state( mask ): the forced read of GPIO
DriverState(r, fail) == Then(r, DriverRead(r.dev, r.cache, "GPIO", fail))

\* the pin state taken from the whole byte
PinStateOfByte(byte, mask) == IF byte # 0 THEN "HIGH" ELSE "LOW"

\* the pin state a byte read from GPIO shows under a mask
PinState(byte, mask) == IF BitAnd(byte, mask) # 0 THEN "HIGH" ELSE "LOW"

\* the direction write of initialize made whatever the level write returned
ThenDirectionRegardless(level, mask, f2) ==
    Modify(level, "IODIR", mask, "clear", f2)

\* the direction write of initialize, unless the level write returned an error
ThenDirection(level, mask, f2) ==
    IF IsError(Result(level)) THEN level
    ELSE Modify(level, "IODIR", mask, "clear", f2)

\* initialize( s ) that makes the pin an output before it sets the level
PushPullInitializeDirectionFirst(r, mask, s, f1, f2) ==
    Modify(Modify(r, "IODIR", mask, "clear", f2),
           "GPIO", mask, IF s = "HIGH" THEN "set" ELSE "clear", f1)

\* Push_Pull_IO_Pin::initialize( s ): the level first, then the direction;
\* the level write's error ends the operation.
PushPullInitialize(r, mask, s, f1, f2) ==
    ThenDirection(Modify(r, "GPIO", mask, IF s = "HIGH" THEN "set" ELSE "clear", f1),
                  mask, f2)

\* ~Push_Pull_IO_Pin that restores the pin without looking at its driver pointer
PushPullDisableUnguarded(r, p, f1, f2) ==
    Modify(Modify(r, "IODIR", p.mask, "set", f1), "GPIO", p.mask, "clear", f2)

\* ~Push_Pull_IO_Pin that drives the level low before it makes the pin an input
PushPullDisableLevelFirst(r, p, f1, f2) ==
    IF p.driver = "none" THEN r
    ELSE Modify(Modify(r, "GPIO", p.mask, "clear", f2), "IODIR", p.mask, "set", f1)

\* ~Push_Pull_IO_Pin that gives up when the direction write returns an error
PushPullDisableUntilError(r, p, f1, f2) ==
    IF p.driver = "none" THEN r
    ELSE IF f1 # 0 THEN Modify(r, "IODIR", p.mask, "set", f1)
    ELSE Modify(Modify(r, "IODIR", p.mask, "set", f1), "GPIO", p.mask, "clear", f2)

\* ~Push_Pull_IO_Pin, operator=: with a driver, the direction back to input and
\* then the level to low, both results dropped; without a driver, nothing.
PushPullDisable(r, p, f1, f2) ==
    IF p.driver = "none" THEN r
    ELSE Modify(Modify(r, "IODIR", p.mask, "set", f1), "GPIO", p.mask, "clear", f2)

\* ~Internally_Pulled_Up_Input_Pin, operator=: with a driver,
\* driver.disable_pull_up( mask ), its result dropped.
PullUpDisable(r, p, f1) ==
    IF p.driver = "none" THEN r
    ELSE DriverDisablePullUp(r, p.mask, f1)

Disable(r, p, f1, f2) ==
    IF kind = "ppio" THEN PushPullDisable(r, p, f1, f2) ELSE PullUpDisable(r, p, f1)

\* a handle taken for one without a driver because its mask is zero
IsDetachedByMask(p) == p.mask = 0

\* a handle without a driver: its operations do nothing and return success
IsDetached(p) == p.driver = "none"

\* the result a pin operation returns: that of its last driver call
Returned(r) == IF r.calls = << >> THEN "ok" ELSE Result(r)

\* the state after an operation of handle h that ran r and returned ret; a
\* destructor returns nothing
Finish(h, op, arg, r, ret, after) ==
    /\ Drivers(pins[h], r)
    /\ lastGood' = lastGood
    /\ last' = [ op |-> op, pin |-> h, src |-> "none", was |-> pins[h], arg |-> arg,
                 res |-> IF op = "destroy" THEN "ok" ELSE Returned(r),
                 ret |-> ret, calls |-> r.calls ]
    /\ pins' = [pins EXCEPT ![h] = after]
    /\ UNCHANGED << kind, race, probe >>

----------------------------------------------------------------------------
\* Construction, move and destruction of handles.

ConstructDefault(h) ==
    /\ ~pins[h].alive
    /\ Finish(h, "construct_default", "none", BeginOf(pins[h]), "none",
              [ alive |-> TRUE, driver |-> "none", mask |-> 0, how |-> "default" ])

Construct(h, m) ==
    /\ ~pins[h].alive
    /\ Finish(h, "construct", "none", BeginOf(pins[h]), "none",
              [ alive |-> TRUE, driver |-> "D", mask |-> m, how |-> "explicit" ])

\* a move that leaves its source as it was
MovedFromKeeping(p) == p

\* what a move leaves in its source: no driver, no mask
MovedFrom(p) == [p EXCEPT !.driver = "none", !.mask = 0, !.how = "moved_from"]

\* the state after handle h took the contents of handle s, r having run before
Take(h, s, op, r) ==
    /\ Drivers(pins[h], r)
    /\ lastGood' = lastGood
    /\ last' = [ op |-> op, pin |-> h, src |-> s, was |-> pins[h], arg |-> pins[s],
                 res |-> "ok", ret |-> "none", calls |-> r.calls ]
    /\ pins' = IF h = s THEN pins
               ELSE [pins EXCEPT ![h] = pins[s], ![s] = MovedFrom(pins[s])]
    /\ UNCHANGED << kind, race, probe >>

\* a pin built as a copy: the source keeps its driver and its mask
ConstructCopy(h, s) ==
    /\ ~pins[h].alive
    /\ pins[s].alive
    /\ Finish(h, "construct_move", pins[s], BeginOf(pins[h]), "none", pins[s])

\* Pin( Pin && source ): h is built from s, which is left without driver and mask
ConstructMove(h, s) ==
    /\ ~pins[h].alive
    /\ pins[s].alive
    /\ Take(h, s, "construct_move", BeginOf(pins[h]))

\* h = std::move( s ) that takes s's driver and mask first and disables after
AssignMoveTakingFirst(h, s, f1, f2) ==
    /\ pins[h].alive
    /\ pins[s].alive
    /\ Take(h, s, "assign_move",
            IF h = s THEN BeginOf(pins[h]) ELSE Disable(BeginOf(pins[s]), pins[s], f1, f2))

\* h = std::move( s ) that does not look whether h is s
AssignMoveUnguarded(h, s, f1, f2) ==
    /\ pins[h].alive
    /\ pins[s].alive
    /\ Take(h, s, "assign_move", Disable(BeginOf(pins[h]), pins[h], f1, f2))

\* h = std::move( s ): unless h is s, h is disabled, takes s's driver and mask,
\* and s is left without them
AssignMove(h, s, f1, f2) ==
    /\ pins[h].alive
    /\ pins[s].alive
    /\ Take(h, s, "assign_move",
            IF h = s THEN BeginOf(pins[h]) ELSE Disable(BeginOf(pins[h]), pins[h], f1, f2))

Destroy(h, f1, f2) ==
    /\ pins[h].alive
    /\ Finish(h, "destroy", "none", Disable(BeginOf(pins[h]), pins[h], f1, f2), "none", NoPin)

----------------------------------------------------------------------------
\* Operations of a Push_Pull_IO_Pin.

Initialize(h, s, f1, f2) ==
    /\ pins[h].alive
    /\ kind = "ppio"
    /\ Finish(h, "initialize", s,
              IF IsDetached(pins[h]) THEN BeginOf(pins[h])
              ELSE PushPullInitialize(BeginOf(pins[h]), pins[h].mask, s, f1, f2),
              "none", pins[h])

\* what state() returns after the read r: the masked bit of the byte read
Level(r, mask) ==
    IF IsError(Result(r)) THEN "none" ELSE PinState(r.calls[1].val, mask)

FinishState(h, r) == Finish(h, "state", "none", r, Level(r, pins[h].mask), pins[h])

\* state(): the forced read of GPIO, then the masked bit of the byte read
ReadState(h, fail) ==
    IF IsDetached(pins[h])
        THEN \E level \in { "HIGH", "LOW" } :
                 Finish(h, "state", "none", BeginOf(pins[h]), level, pins[h])
        ELSE FinishState(h, DriverState(BeginOf(pins[h]), fail))

\* state(): driver.read_gpio()
State(h, fail) ==
    /\ pins[h].alive
    /\ kind = "ppio"
    /\ ReadState(h, fail)

Transition(h, op, how, fail) ==
    /\ pins[h].alive
    /\ kind = "ppio"
    /\ Finish(h, op, "none",
              IF IsDetached(pins[h]) THEN BeginOf(pins[h])
              ELSE Modify(BeginOf(pins[h]), "GPIO", pins[h].mask, how, fail),
              "none", pins[h])

TransitionToHigh(h, fail) == Transition(h, "transition_to_high", "set", fail)

TransitionToLow(h, fail) == Transition(h, "transition_to_low", "clear", fail)

Toggle(h, fail) == Transition(h, "toggle", "toggle", fail)

----------------------------------------------------------------------------
\* Operations of an Internally_Pulled_Up_Input_Pin.

PullUp(h, op, arg, enable, fail) ==
    /\ pins[h].alive
    /\ kind = "ipui"
    /\ Finish(h, op, arg,
              IF IsDetached(pins[h]) THEN BeginOf(pins[h])
              ELSE IF enable THEN DriverEnablePullUp(BeginOf(pins[h]), pins[h].mask, fail)
              ELSE DriverDisablePullUp(BeginOf(pins[h]), pins[h].mask, fail),
              "none", pins[h])

\* the arguments of initialize: a state, or none ("default")
InitialPullUpStates == { "ENABLED", "DISABLED", "default" }

\* initialize that leaves its argument aside
InitializePullUpDisabled(h, p, fail) == PullUp(h, "initialize", p, FALSE, fail)

\* initialize( initial_pull_up_state = DISABLED )
InitializePullUp(h, p, fail) == PullUp(h, "initialize", p, p = "ENABLED", fail)

EnablePullUp(h, fail) == PullUp(h, "enable_pull_up", "none", TRUE, fail)

DisablePullUp(h, fail) == PullUp(h, "disable_pull_up", "none", FALSE, fail)

\* state(): driver.state( mask ), high if the masked byte is not zero
StateInput(h, fail) ==
    /\ pins[h].alive
    /\ kind = "ipui"
    /\ ReadState(h, fail)

\* the bus outcomes an operation of handle p can meet: a handle without a
\* driver reaches no bus
Outcomes(p) == IF IsDetached(p) THEN { 0 } ELSE PinFailures

\* the outcomes of the second write of an operation that makes two
Outcomes2(p) == IF kind = "ppio" THEN Outcomes(p) ELSE { 0 }

----------------------------------------------------------------------------
\* One caller constructs, operates, moves and destroys the handles, one
\* operation after the other.

Operate ==
    \/ \E h \in Handles, s \in { "HIGH", "LOW" } :
            \E f1 \in Outcomes(pins[h]), f2 \in Outcomes(pins[h]) :
                Initialize(h, s, f1, f2)
    \/ \E h \in Handles : \E fail \in Outcomes(pins[h]) : State(h, fail)
    \/ \E h \in Handles : \E fail \in Outcomes(pins[h]) : TransitionToHigh(h, fail)
    \/ \E h \in Handles : \E fail \in Outcomes(pins[h]) : TransitionToLow(h, fail)
    \/ \E h \in Handles : \E fail \in Outcomes(pins[h]) : Toggle(h, fail)
    \/ \E h \in Handles, p \in InitialPullUpStates :
            \E fail \in Outcomes(pins[h]) : InitializePullUp(h, p, fail)
    \/ \E h \in Handles : \E fail \in Outcomes(pins[h]) : EnablePullUp(h, fail)
    \/ \E h \in Handles : \E fail \in Outcomes(pins[h]) : DisablePullUp(h, fail)
    \/ \E h \in Handles : \E fail \in Outcomes(pins[h]) : StateInput(h, fail)

Next ==
    \/ \E h \in Handles : ConstructDefault(h)
    \/ \E h \in Handles, m \in Masks : Construct(h, m)
    \/ \E h \in Handles, s \in Handles : ConstructMove(h, s)
    \/ \E h \in Handles, s \in Handles :
            \E f1 \in Outcomes(pins[h]), f2 \in Outcomes2(pins[h]) :
                AssignMove(h, s, f1, f2)
    \/ \E h \in Handles :
            \E f1 \in Outcomes(pins[h]), f2 \in Outcomes2(pins[h]) :
                Destroy(h, f1, f2)
    \/ Operate

Spec == Init /\ [][Next]_vars

\* the operations of a pin handle that reach for the driver
PinOperations ==
    { "initialize", "state", "transition_to_high", "transition_to_low", "toggle",
      "enable_pull_up", "disable_pull_up", "destroy" }

\* C9: the destructor of a default-constructed handle and of a moved-from
\* handle, of either pin class, makes no driver call and so no bus call.
DetachedDestructorIsSilent ==
    (last.op = "destroy" /\ last.was.how \in { "default", "moved_from" }) =>
        last.calls = << >>

\* a handle was constructed with a driver, moved from, and then destroyed
MovedFromDestroyed ==
    /\ last.op = "destroy"
    /\ last.was.how = "moved_from"
    /\ \E h \in Handles : pins[h].alive /\ pins[h].driver = "D"

\* C10 as stated: an operation of a handle whose mask is zero, however the
\* handle came by it, makes no driver call and returns success.
ZeroMaskIsNoOp ==
    (last.op \in PinOperations /\ last.was.mask = 0) =>
        /\ last.calls = << >>
        /\ last.res = "ok"

\* the driver calls of the last operation that are writes
Writes == { i \in 1 .. Len(last.calls) : last.calls[i].fn = "write" }

\* C10: an operation of a handle whose mask is zero makes no driver call and
\* returns success if the handle has no driver (default-constructed, moved-from);
\* if the handle was constructed with a driver and the mask zero, the operation
\* makes its driver calls, and every write it makes writes the byte read before.
ZeroMaskOperation ==
    (last.op \in PinOperations /\ last.was.mask = 0) =>
        IF last.was.driver = "none"
            THEN /\ last.calls = << >>
                 /\ last.res = "ok"
            ELSE /\ last.calls # << >>
                 /\ \A i \in Writes :
                        /\ i > 1
                        /\ last.calls[i - 1].fn = "get"
                        /\ last.calls[i - 1].reg = last.calls[i].reg
                        /\ last.calls[i].val = last.calls[i - 1].val

\* a handle constructed with a driver and the mask zero was destroyed, and its
\* destructor wrote to the device
ZeroMaskDestructorWrote ==
    /\ last.op = "destroy"
    /\ last.was.driver = "D"
    /\ last.was.mask = 0
    /\ Writes # { }

----------------------------------------------------------------------------
\* Two handles with disjoint masks over the one driver, operated by one
\* caller, one operation after the other.

MaskA == 1

MaskB == 4

MaskOf(h) == IF h = "A" THEN MaskA ELSE MaskB

NextShared ==
    \/ \E h \in Handles : Construct(h, MaskOf(h))
    \/ \E h \in Handles :
            \E f1 \in Outcomes(pins[h]), f2 \in Outcomes2(pins[h]) :
                Destroy(h, f1, f2)
    \/ Operate

SpecShared == Init /\ [][NextShared]_vars

\* what an operation does to the masked bits of a register: initialize sets
\* the level or the pull-up asked for and makes the pin an output, teardown
\* makes the pin an input and clears its level or its pull-up
Intent(op, arg, reg) ==
    CASE op \in { "transition_to_high", "enable_pull_up" }  -> "set"
      [] op \in { "transition_to_low", "disable_pull_up" }  -> "clear"
      [] op = "toggle"                                      -> "toggle"
      [] op = "initialize" ->
            IF reg = "IODIR" THEN "clear"
            ELSE IF arg \in { "HIGH", "ENABLED" } THEN "set" ELSE "clear"
      [] op \in { "destroy", "assign_move" } ->
            IF reg = "IODIR" THEN "set" ELSE "clear"

\* bit i of the byte to write, from bit i of the byte read
IntendedBit(old, mask, how, i) ==
    IF Bit(mask, i) = 0 THEN Bit(old, i)
    ELSE CASE how = "set"    -> 1
           [] how = "clear"  -> 0
           [] how = "toggle" -> 1 - Bit(old, i)

\* C5: every write a pin operation makes follows a cached read of the same
\* register and writes the byte read with the masked bits set, cleared or
\* toggled, every bit outside the mask as it was read.
WritesKeepOtherBits ==
    last.pin \in Handles =>
        \A i \in Writes :
            /\ i > 1
            /\ last.calls[i - 1].fn = "get"
            /\ last.calls[i - 1].reg = last.calls[i].reg
            /\ \A b \in 0 .. (ByteWidth - 1) :
                   Bit(last.calls[i].val, b) =
                       IntendedBit(last.calls[i - 1].val, last.was.mask,
                                   Intent(last.op, last.arg, last.calls[i].reg), b)

\* handle B drove its pin low while handle A's pin was high, and A's bit stayed
ClearedBesideSetBit ==
    /\ last.op = "transition_to_low"
    /\ last.pin = "B"
    /\ last.res = "ok"
    /\ last.calls[1].val = MaskA + MaskB
    /\ dev["GPIO"] = MaskA

\* the registers pin operations write: direction, level, pull-up
PinRegisters == { "IODIR", "GPIO", "GPPU" }

\* the bits of mask are the same in d and e, in every register pins write
SameBits(d, e, mask) ==
    \A R \in PinRegisters : BitAnd(d[R], mask) = BitAnd(e[R], mask)

Other(h) == IF h = "A" THEN "B" ELSE "A"

\* C6: an operation of one handle, its teardown included, leaves the bits of
\* the other handle's mask as they were, in the device and in the cache.
OtherPinsBitsKept ==
    [][ \A a \in Handles :
            last'.pin = a =>
                /\ SameBits(dev, dev', MaskOf(Other(a)))
                /\ SameBits(cache, cache', MaskOf(Other(a))) ]_vars

\* toggle() of a handle with a driver and a mask returned success
Toggled(l) ==
    /\ l.op = "toggle"
    /\ l.res = "ok"
    /\ l.was.driver = "D"
    /\ l.was.mask # 0

\* C8: after two successful toggle() of a handle, one right after the other,
\* the pin's bit of the level register in the device is what it was before the
\* first.
ToggleTwiceRestores ==
    [][ (Toggled(last) /\ Toggled(last') /\ last'.pin = last.pin) =>
            BitAnd(dev'["GPIO"], last.was.mask) = BitAnd(last.calls[2].at, last.was.mask) ]_vars

----------------------------------------------------------------------------
\* Two handles over the one driver whose callers run at the same time: a
\* level operation is the cached read (Fetch) and then the write (Store), and
\* the steps of the two callers interleave.  With race.serialized the callers
\* hold a lock around the operation, so that one fetches only when the other
\* is not between its read and its write.

Hows == { "set", "clear", "toggle" }

Idle == [ pc |-> "idle", how |-> "none", old |-> -1, res |-> "none" ]

InitRace ==
    /\ kind = "ppio"
    /\ dev = ResetState
    /\ cache = ResetState
    /\ lastGood = ResetState
    /\ last = NoOp
    /\ pins = [h \in Handles |->
                 [ alive |-> TRUE, driver |-> "D", mask |-> MaskOf(h), how |-> "explicit" ]]
    /\ \E s \in BOOLEAN :
           race = [ on |-> TRUE, serialized |-> s, start |-> ResetValue("GPIO"),
                    of |-> [h \in Handles |-> Idle] ]
    /\ second = NoSecond
    /\ probe = NoProbe

\* the callers take no lock
MayFetchAlways(h) == TRUE

\* the lock: no fetch while the other caller is between read and write
MayFetch(h) == race.serialized => race.of[Other(h)].pc # "fetched"

\* the first step of transition_to_high / transition_to_low / toggle: driver.gpio()
Fetch(h, how) ==
    /\ race.of[h].pc = "idle"
    /\ MayFetch(h)
    /\ race' = [race EXCEPT
                   !.of[h] = [ pc |-> "fetched", how |-> how,
                               old |-> DriverGet(dev, cache, "GPIO").call.val,
                               res |-> "none" ],
                   !.start = IF race.of[Other(h)].pc = "idle"
                                 THEN CacheGet(cache, "GPIO") ELSE @]
    /\ UNCHANGED << kind, dev, cache, lastGood, last, pins, second, probe >>

\* the state after the write w of handle h returned
Stored(h, w) ==
    /\ dev' = w.dev
    /\ cache' = w.cache
    /\ race' = [race EXCEPT !.of[h].pc = "done", !.of[h].res = w.call.res]
    /\ UNCHANGED << kind, lastGood, last, pins, second, probe >>

\* the second step: driver.write_gpio( old <op> mask )
Store(h, fail) ==
    /\ race.of[h].pc = "fetched"
    /\ Stored(h, DriverWrite(dev, cache, "GPIO",
                             Modified(race.of[h].old, pins[h].mask, race.of[h].how), fail))

\* both operations have returned; the callers go on to their next operations
Retire ==
    /\ \A h \in Handles : race.of[h].pc = "done"
    /\ race' = [race EXCEPT !.of = [h \in Handles |-> Idle]]
    /\ UNCHANGED << kind, dev, cache, lastGood, last, pins, second, probe >>

NextRace ==
    \/ \E h \in Handles, how \in Hows : Fetch(h, how)
    \/ \E h \in Handles, fail \in PinFailures : Store(h, fail)
    \/ Retire

SpecRace == InitRace /\ [][NextRace]_vars

\* both operations returned success
BothSucceeded == \A h \in Handles : race.of[h].pc = "done" /\ race.of[h].res = "ok"

\* the level register with both operations applied to the byte it held
BothApplied ==
    Modified(Modified(race.start, MaskA, race.of["A"].how), MaskB, race.of["B"].how)

\* both operations returned success and the level register lacks one of them
LostUpdate == BothSucceeded /\ dev["GPIO"] # BothApplied

\* C7: when the two callers serialize their operations, no update is lost: if
\* both operations returned success the level register has both.
SerializedLosesNoUpdate == race.serialized => ~LostUpdate

\* without the lock both handles fetched the same byte and both wrote: the
\* register has B's update and lacks A's
UnserializedLostUpdate ==
    /\ ~race.serialized
    /\ LostUpdate
    /\ race.of["A"].old = race.of["B"].old
    /\ dev["GPIO"] = Modified(race.start, MaskB, race.of["B"].how)

----------------------------------------------------------------------------
\* Push_Pull_IO_Pin: initialize and teardown.

\* the last operation was op of a Push_Pull_IO_Pin with a driver
PushPullDid(l, op) ==
    /\ kind = "ppio"
    /\ l.op = op
    /\ l.was.driver = "D"

\* the registers written by the calls of an operation, in the order written
RECURSIVE WrittenRegisters(_)
WrittenRegisters(calls) ==
    IF calls = << >> THEN << >>
    ELSE IF calls[1].fn = "write" THEN << calls[1].reg >> \o WrittenRegisters(Tail(calls))
    ELSE WrittenRegisters(Tail(calls))

\* call i of the last operation writes the byte the cached read before it
\* returned, with the masked bits set (how = "set") or cleared
WritesCached(i, R, how) ==
    /\ last.calls[i - 1].fn = "get"
    /\ last.calls[i - 1].reg = R
    /\ last.calls[i - 1].bus = << >>
    /\ last.calls[i].fn = "write"
    /\ last.calls[i].reg = R
    /\ last.calls[i].val =
           IF how = "set" THEN BitOr(last.calls[i - 1].val, last.was.mask)
           ELSE BitAnd(last.calls[i - 1].val, BitNot(last.was.mask))

RECURSIVE ByteAfter(_, _, _, _)
ByteAfter(calls, k, R, from) ==
    IF k = 0 THEN from
    ELSE IF calls[k].reg = R THEN calls[k].to
    ELSE ByteAfter(calls, k - 1, R, from)

\* the pin is an output at a level other than s when the device's direction
\* and level registers hold iodir and gpio
OutputAtOtherLevel(iodir, gpio, mask, s) ==
    /\ BitAnd(iodir, mask) = 0
    /\ PinState(gpio, mask) # s

\* C12: initialize(s) of a pin that is an input never has the device, after
\* any of its driver calls, with the pin an output at a level other than s,
\* whichever of its writes fail.
InitializeNeverGlitches ==
    [][ (/\ PushPullDid(last', "initialize")
         /\ last'.was.mask # 0
         /\ BitAnd(dev["IODIR"], last'.was.mask) = last'.was.mask) =>
            \A k \in 0 .. Len(last'.calls) :
                ~OutputAtOtherLevel(ByteAfter(last'.calls, k, "IODIR", dev["IODIR"]),
                                    ByteAfter(last'.calls, k, "GPIO", dev["GPIO"]),
                                    last'.was.mask, last'.arg) ]_vars

\* initialize(HIGH) made an output of a pin that was a low input, its
\* direction write failing after the byte was written
InitializedOutputThoughFailed ==
    /\ PushPullDid(last, "initialize")
    /\ last.arg = "HIGH"
    /\ last.was.mask # 0
    /\ Len(last.calls) = 4
    /\ last.calls[2].at = 0
    /\ last.calls[4].res = "stop"
    /\ BitAnd(last.calls[4].at, last.was.mask) # 0
    /\ OutputAtOtherLevel(dev["IODIR"], dev["GPIO"], last.was.mask, "LOW")

\* the last operation was one that tears a Push_Pull_IO_Pin down
PushPullTornDown ==
    /\ kind = "ppio"
    /\ last.op \in { "destroy", "assign_move" }

\* C13 as stated: teardown of a pin with a driver writes the level register
\* (low) first and the direction register (input) after it.
TeardownLevelThenDirection ==
    (PushPullTornDown /\ last.calls # << >>) =>
        WrittenRegisters(last.calls) = << "GPIO", "IODIR" >>

\* C13: teardown of a pin with a driver, by the destructor or by move
\* assignment, writes the direction register (input) first and the level
\* register (low) after it.
TeardownDirectionThenLevel ==
    PushPullTornDown =>
        /\ last.calls # << >> => WrittenRegisters(last.calls) = << "IODIR", "GPIO" >>
        /\ (last.op = "destroy" /\ last.was.driver = "D") => last.calls # << >>

\* a pin that was an output driven high was destroyed, both writes succeeding
OutputHighDestroyed ==
    /\ PushPullDid(last, "destroy")
    /\ last.was.mask # 0
    /\ Len(last.calls) = 4
    /\ BitAnd(last.calls[2].at, last.was.mask) = 0
    /\ BitAnd(last.calls[4].at, last.was.mask) # 0
    /\ last.calls[2].res = "ok"
    /\ last.calls[4].res = "ok"

\* the bits outside mask are the same in the bytes x and y
SameOutside(x, y, mask) == BitAnd(x, BitNot(mask)) = BitAnd(y, BitNot(mask))

\* C14: the destructor of a pin with a driver makes four driver calls: the
\* cached read of the direction register, the write of direction | mask, the
\* cached read of the level register, the write of level & ~mask; when both
\* writes succeeded the pin's bit is input and low, and every other bit of the
\* two registers is what it was, in the device as in the cache.
DestructorRestoresInputLow ==
    PushPullDid(last, "destroy") =>
        /\ Len(last.calls) = 4
        /\ WritesCached(2, "IODIR", "set")
        /\ WritesCached(4, "GPIO", "clear")
        /\ (last.calls[2].res = "ok" /\ last.calls[4].res = "ok") =>
               /\ BitAnd(dev["IODIR"], last.was.mask) = last.was.mask
               /\ BitAnd(dev["GPIO"], last.was.mask) = 0
               /\ \A i \in { 2, 4 } :
                      /\ SameOutside(last.calls[i].to, last.calls[i].at, last.was.mask)
                      /\ SameOutside(cache[last.calls[i].reg], last.calls[i].pre,
                                     last.was.mask)

\* the registers a teardown writes, each once
TeardownWrites == IF kind = "ppio" THEN << "IODIR", "GPIO" >> ELSE << "GPPU" >>

\* C15: a teardown, by the destructor or by move assignment, makes each of
\* its register writes once whatever the writes return, and completes: the
\* destroyed handle is gone, the assigned handle holds what was moved into it,
\* and no error is returned.
TeardownDiscardsErrors ==
    (last.op \in { "destroy", "assign_move" } /\ last.calls # << >>) =>
        /\ WrittenRegisters(last.calls) = TeardownWrites
        /\ last.res = "ok"
        /\ last.op = "destroy" => ~pins[last.pin].alive
        /\ last.op = "assign_move" => pins[last.pin] = last.arg

\* the direction write of a destructor failed and its level write was made
DirectionWriteFailedInTeardown ==
    /\ PushPullDid(last, "destroy")
    /\ Len(last.calls) = 4
    /\ last.calls[2].res # "ok"
    /\ last.calls[4].fn = "write"
    /\ last.calls[4].reg = "GPIO"

----------------------------------------------------------------------------
\* Internally_Pulled_Up_Input_Pin and Push_Pull_IO_Pin: initialize, state, errors.

\* the last operation was op of an Internally_Pulled_Up_Input_Pin with a driver
PullUpDid(l, op) ==
    /\ kind = "ipui"
    /\ l.op = op
    /\ l.was.driver = "D"

\* C16: initialize(p) of a pin with a driver updates the pull-up register once,
\* with the pin's bits set when p is ENABLED and cleared when p is DISABLED or
\* not given, and returns what the update returned.
InitializeUpdatesPullUpOnce ==
    PullUpDid(last, "initialize") =>
        /\ Len(last.calls) = 2
        /\ WritesCached(2, "GPPU", IF last.arg = "ENABLED" THEN "set" ELSE "clear")
        /\ last.res = last.calls[2].res

\* from the reset cache, initialize(ENABLED) of the pin with mask 0x04 wrote 0x04
InitializedEnabledFromReset ==
    /\ PullUpDid(last, "initialize")
    /\ last.arg = "ENABLED"
    /\ last.was.mask = 4
    /\ last.calls[1].val = ResetValue("GPPU")
    /\ last.calls[2].val = 4
    /\ last.res = "ok"

\* Pins that are inputs, their levels driven from outside the device.

\* the level at the pin of handle h's mask changes
ExternalChange(h) ==
    /\ BitAnd(dev["IODIR"], MaskOf(h)) = MaskOf(h)
    /\ dev' = [dev EXCEPT !["GPIO"] = BitXor(@, MaskOf(h))]
    /\ last' = [NoOp EXCEPT !.op = "external"]
    /\ UNCHANGED << kind, cache, lastGood, pins, race, second, probe >>

NextInput ==
    \/ \E h \in Handles : Construct(h, MaskOf(h))
    \/ \E h \in Handles : \E fail \in Outcomes(pins[h]) : State(h, fail)
    \/ \E h \in Handles : \E fail \in Outcomes(pins[h]) : StateInput(h, fail)
    \/ \E h \in Handles : ExternalChange(h)

SpecInput == Init /\ [][NextInput]_vars

\* the last operation made one driver call, a forced read of the level
\* register, which went to the bus and wrote nothing
OneForcedRead ==
    /\ Len(last.calls) = 1
    /\ last.calls[1].fn = "read"
    /\ last.calls[1].reg = "GPIO"
    /\ last.calls[1].bus # << >>
    /\ last.calls[1].to = last.calls[1].at

\* the last operation returned the read's error, or high or low as the pin's
\* bits of the device's byte were when it was read
ReturnedLevelRead ==
    /\ last.res = last.calls[1].res
    /\ IF last.calls[1].res = "ok"
           THEN last.ret = IF BitAnd(last.calls[1].at, last.was.mask) # 0
                               THEN "HIGH" ELSE "LOW"
           ELSE last.ret = "none"

\* C17: state() of an Internally_Pulled_Up_Input_Pin makes one forced read of
\* the level register and no write; it returns high exactly if the pin's bit
\* of the byte read is set, and the read's error if the read failed.
PullUpStateReadsLevel ==
    PullUpDid(last, "state") => (OneForcedRead /\ ReturnedLevelRead)

\* state() of B returned low while A's pin was high
LowBesideHighInput ==
    /\ PullUpDid(last, "state")
    /\ last.pin = "B"
    /\ last.ret = "LOW"
    /\ last.calls[1].val = MaskA

\* C18: state() of a Push_Pull_IO_Pin makes one forced read of the level
\* register, never a cached read; it returns high exactly if the pin's bit is
\* set in the device, whatever the cache held, and the read's error if the
\* read failed.
PushPullStateReadsDevice ==
    PushPullDid(last, "state") =>
        /\ OneForcedRead
        /\ last.res = last.calls[1].res
        /\ IF last.res = "ok"
               THEN last.ret = IF BitAnd(dev["GPIO"], last.was.mask) # 0
                                   THEN "HIGH" ELSE "LOW"
               ELSE last.ret = "none"

\* an earlier state() had read A's pin high and left that in the cache; the
\* level fell, and state() of A returned low
ExternalFallReported ==
    /\ PushPullDid(last, "state")
    /\ last.pin = "A"
    /\ last.calls[1].pre = MaskA
    /\ last.calls[1].val = 0
    /\ last.ret = "LOW"

\* the operations of a pin other than its teardown
NonTeardownOperations == PinOperations \ { "destroy" }

\* C19: an operation of a pin other than teardown stops at the first driver
\* call that returns an error and returns that error: every call but the last
\* succeeded, the result is the last call's, and no register is written
\* twice.  So initialize of a Push_Pull_IO_Pin whose level write failed neither
\* reads nor writes the direction register, and the error of its direction
\* write is its result.
ErrorsEndOperation ==
    (last.op \in NonTeardownOperations /\ last.was.driver = "D") =>
        /\ last.calls # << >>
        /\ \A i \in 1 .. (Len(last.calls) - 1) : last.calls[i].res = "ok"
        /\ last.res = last.calls[Len(last.calls)].res
        /\ \A i, j \in Writes : last.calls[i].reg = last.calls[j].reg => i = j

\* initialize of a Push_Pull_IO_Pin returned the error of its level write,
\* the direction register not touched
LevelWriteErrorReturned ==
    /\ PushPullDid(last, "initialize")
    /\ last.res = "address"
    /\ Len(last.calls) = 2
    /\ last.calls[2].reg = "GPIO"

----------------------------------------------------------------------------
\* Moves.

\* the step builds a pin from a pin that has a driver
MoveConstructed(l) ==
    /\ l.op = "construct_move"
    /\ l.arg.driver = "D"

\* C20: building a pin from a pin with a driver makes no driver call and
\* changes neither device nor cache; the new pin has the source's driver and
\* mask and the source has neither; of the two destructors, the new pin's
\* makes the teardown writes for that mask and the source's makes no call.
MoveConstructionHandsOver ==
    [][ /\ MoveConstructed(last') =>
               /\ last'.calls = << >>
               /\ dev' = dev
               /\ cache' = cache
               /\ pins'[last'.pin] = last'.arg
               /\ pins'[Other(last'.pin)].driver = "none"
               /\ pins'[Other(last'.pin)].mask = 0
        /\ (MoveConstructed(last) /\ last'.op = "destroy") =>
               IF last'.pin = last.pin
                   THEN /\ last'.was.mask = last.arg.mask
                        /\ WrittenRegisters(last'.calls) = TeardownWrites
                   ELSE last'.calls = << >> ]_vars

\* a pin was built from a Push_Pull_IO_Pin that had made its pin an output
OutputPinMoved ==
    /\ kind = "ppio"
    /\ MoveConstructed(last)
    /\ last.arg.mask # 0
    /\ BitAnd(dev["IODIR"], last.arg.mask) = 0
    /\ pins[last.pin].driver = "D"

\* Two handles and two drivers: A is constructed on the driver D, B on the
\* driver E, and the handles are move-assigned to one another.

DriverOf(h) == IF h = "A" THEN "D" ELSE "E"

\* Pin( driver, mask ) on the driver x
ConstructOn(h, m, x) ==
    /\ ~pins[h].alive
    /\ Finish(h, "construct", "none", BeginOf(pins[h]), "none",
              [ alive |-> TRUE, driver |-> x, mask |-> m, how |-> "explicit" ])

NextAssign ==
    \/ \E h \in Handles : ConstructOn(h, MaskOf(h), DriverOf(h))
    \/ \E h \in Handles : ConstructDefault(h)
    \/ \E h \in Handles, s \in Handles :
            \E f1 \in Outcomes(pins[h]), f2 \in Outcomes2(pins[h]) :
                AssignMove(h, s, f1, f2)
    \/ \E h \in Handles :
            \E f1 \in Outcomes(pins[h]), f2 \in Outcomes2(pins[h]) :
                Destroy(h, f1, f2)
    \/ \E h \in Handles : \E fail \in Outcomes(pins[h]) : TransitionToHigh(h, fail)
    \/ \E h \in Handles : \E fail \in Outcomes(pins[h]) : EnablePullUp(h, fail)

SpecAssign == Init /\ [][NextAssign]_vars

\* the device and the cache of the driver x, of d and c (driver D) and e (driver E)
DriverState2(x, d, c, e) ==
    IF x = "E" THEN e ELSE [ dev |-> d, cache |-> c ]

\* the calls are a teardown under the mask: every register of the teardown is
\* read from the cache and written once, the masked bits set in the direction
\* register and cleared in the others, the other bits as read
TeardownCalls(calls, mask) ==
    /\ WrittenRegisters(calls) = TeardownWrites
    /\ \A i \in { j \in 1 .. Len(calls) : calls[j].fn = "write" } :
           /\ calls[i - 1].fn = "get"
           /\ calls[i - 1].reg = calls[i].reg
           /\ calls[i].val = IF calls[i].reg = "IODIR"
                                 THEN BitOr(calls[i - 1].val, mask)
                                 ELSE BitAnd(calls[i - 1].val, BitNot(mask))

\* C21: the move assignment of the handle S to another handle T makes the
\* teardown calls of T's driver and mask if T has a driver and no call
\* otherwise, leaves the device and the cache of any other driver as they
\* were, gives T the driver and the mask of S and leaves S without them,
\* whatever T's teardown writes returned.
AssignmentTearsDownThenTakes ==
    [][ (last'.op = "assign_move" /\ last'.src # last'.pin) =>
            /\ IF pins[last'.pin].driver = "none"
                   THEN last'.calls = << >>
                   ELSE TeardownCalls(last'.calls, pins[last'.pin].mask)
            /\ \A x \in { "D", "E" } \ { pins[last'.pin].driver } :
                   DriverState2(x, dev', cache', second') = DriverState2(x, dev, cache, second)
            /\ \A i \in 1 .. Len(last'.calls) :
                   DriverState2(pins[last'.pin].driver, dev', cache', second')
                       .dev[last'.calls[i].reg] = last'.calls[i].to
                   \/ \E j \in (i + 1) .. Len(last'.calls) :
                          last'.calls[j].reg = last'.calls[i].reg
            /\ pins'[last'.pin].driver = pins[last'.src].driver
            /\ pins'[last'.pin].mask = pins[last'.src].mask
            /\ pins'[last'.src].driver = "none"
            /\ pins'[last'.src].mask = 0 ]_vars

\* the handle on the driver D was assigned the handle on the driver E, the
\* first write of its teardown failing
AssignedAcrossDrivers ==
    /\ last.op = "assign_move"
    /\ last.src # last.pin
    /\ last.was.driver = "D"
    /\ last.arg.driver = "E"
    /\ last.calls[2].res # "ok"
    /\ pins[last.pin].driver = "E"
    /\ pins[last.src].driver = "none"

----------------------------------------------------------------------------
\* The active low pin adapters of gpio.h over a pin P.  probe holds the
\* adapted pin: its class (the adapters over P, outermost first), the level
\* of P, the operation called last, what it called of P and what came back.

\* the state variables of the MCP23008 model
deviceVars == << kind, dev, cache, lastGood, last, pins, race, second >>

Levels == { "HIGH", "LOW" }

\* the error codes P returns; "none" for success
PinErrors == { "none", "BUS_ERROR", "NONRESPONSIVE_DEVICE" }

Failed(result) == result.err # "none"

NoResult == [ err |-> "none", value |-> "none" ]

\* not is_high
Opposite(level) == IF level = "HIGH" THEN "LOW" ELSE "HIGH"

\* a pin P: it is at a level, its operations return fail if that is an error,
\* and otherwise do what the pin concepts say
UnderlyingPin(op, arg, level, fail) ==
    [ called  |-> << op, arg >>,
      presult |-> IF fail # "none" THEN [ err |-> fail, value |-> "none" ]
                  ELSE IF op = "state" THEN [ err |-> "none", value |-> level ]
                  ELSE NoResult,
      level   |-> IF fail # "none" THEN level
                  ELSE CASE op = "initialize"         -> IF arg = "HIGH" THEN "HIGH" ELSE "LOW"
                         [] op = "transition_to_high" -> "HIGH"
                         [] op = "transition_to_low"  -> "LOW"
                         [] op = "toggle"             -> Opposite(level)
                         [] OTHER                     -> level ]

\* state() that hands on what P::state() returned
ActiveLowInputPinStatePlain(result) == result

\* Active_Low_Input_Pin::state(), of the result of Input_Pin::state()
ActiveLowInputPinState(result) ==
    IF Failed(result) THEN result
    ELSE [ err |-> "none", value |-> Opposite(result.value) ]

\* initialize that hands its argument on
ActiveLowOutputPinInitializePlain(arg) == arg

\* Active_Low_Output_Pin::initialize( initial_pin_state = LOW ): the argument
\* of Output_Pin::initialize
ActiveLowOutputPinInitialize(arg) == IF arg = "HIGH" THEN "LOW" ELSE "HIGH"

\* transitions handed on as they are
ActiveLowOutputPinOperationPlain(op) == op

\* Active_Low_Output_Pin: the operation of Output_Pin an operation calls;
\* toggle and state are inherited
ActiveLowOutputPinOperation(op) ==
    CASE op = "transition_to_high" -> "transition_to_low"
      [] op = "transition_to_low"  -> "transition_to_high"
      [] OTHER                     -> op

\* the call of op on the pin class made of the adapters in layers over P
RECURSIVE AdaptedPin(_, _, _, _, _)
AdaptedPin(layers, op, arg, level, fail) ==
    IF layers = << >> THEN
        [ result |-> UnderlyingPin(op, arg, level, fail).presult ]
            @@ UnderlyingPin(op, arg, level, fail)
    ELSE IF Head(layers) = "Active_Low_Input_Pin" THEN
        IF op = "state"
            THEN [ AdaptedPin(Tail(layers), op, arg, level, fail) EXCEPT
                       !.result = ActiveLowInputPinState(@) ]
            ELSE AdaptedPin(Tail(layers), op, arg, level, fail)
    ELSE
        AdaptedPin(Tail(layers), ActiveLowOutputPinOperation(op),
                   IF op = "initialize" THEN ActiveLowOutputPinInitialize(arg) ELSE arg,
                   level, fail)

\* Active_Low_IO_Pin without the input adapter
IOOverPOutputOnly == << "Active_Low_Output_Pin" >>

\* Active_Low_Input_Pin<P>, Active_Low_Output_Pin<P> and
\* Active_Low_IO_Pin<P> = Active_Low_Output_Pin<Active_Low_Input_Pin<P>>
InputOverP == << "Active_Low_Input_Pin" >>

OutputOverP == << "Active_Low_Output_Pin" >>

IOOverP == << "Active_Low_Output_Pin", "Active_Low_Input_Pin" >>

\* the adapters nested the other way:
\* Active_Low_Input_Pin<Active_Low_Output_Pin<P>>
InputOverOutput == << "Active_Low_Input_Pin", "Active_Low_Output_Pin" >>

Layerings == { InputOverP, OutputOverP, IOOverP, InputOverOutput }

\* the MCP23008 model after construction, nothing of it in use
Unused ==
    /\ kind = "ppio"
    /\ dev = ResetState
    /\ cache = ResetState
    /\ lastGood = ResetState
    /\ last = NoOp
    /\ pins = [h \in Handles |-> NoPin]
    /\ race = NoRace
    /\ second = NoSecond

InitActiveLow ==
    /\ Unused
    /\ \E layers \in Layerings, level \in Levels :
           probe = [ fn |-> "pin", layers |-> layers, level |-> level,
                     before |-> [ op |-> "none", result |-> NoResult ],
                     op |-> "none", arg |-> "none", called |-> << >>,
                     presult |-> NoResult, result |-> NoResult ]

\* the adapted pin after the call c returned
Called(op, arg, c) ==
    /\ probe' = [ probe EXCEPT !.before = [ op |-> probe.op, result |-> probe.result ],
                               !.level = c.level, !.op = op, !.arg = arg,
                               !.called = c.called, !.presult = c.presult,
                               !.result = c.result ]
    /\ UNCHANGED deviceVars

\* P is an IO pin: every class has state() and the output operations, its
\* own or inherited
AdaptedState(fail) ==
    Called("state", "none", AdaptedPin(probe.layers, "state", "none", probe.level, fail))

AdaptedOutput(op, arg, fail) ==
    Called(op, arg, AdaptedPin(probe.layers, op, arg, probe.level, fail))

AdaptedInitialize(arg, fail) == AdaptedOutput("initialize", arg, fail)

AdaptedTransitionToHigh(fail) == AdaptedOutput("transition_to_high", "none", fail)

AdaptedTransitionToLow(fail) == AdaptedOutput("transition_to_low", "none", fail)

AdaptedToggle(fail) == AdaptedOutput("toggle", "none", fail)

\* the level of P changes from outside
AdaptedLevelChange ==
    /\ Called("external", "none",
              [ level |-> Opposite(probe.level), called |-> << >>,
                presult |-> NoResult, result |-> NoResult ])

NextActiveLow ==
    \/ \E fail \in PinErrors : AdaptedState(fail)
    \/ \E arg \in { "HIGH", "LOW", "default" }, fail \in PinErrors :
            AdaptedInitialize(arg, fail)
    \/ \E fail \in PinErrors : AdaptedTransitionToHigh(fail)
    \/ \E fail \in PinErrors : AdaptedTransitionToLow(fail)
    \/ \E fail \in PinErrors : AdaptedToggle(fail)
    \/ AdaptedLevelChange

SpecActiveLow == InitActiveLow /\ [][NextActiveLow]_vars

\* C22: state() of Active_Low_Input_Pin<P> returns high when P::state()
\* returned low, low when it returned high, and P's error, as it is, when it
\* returned an error.
ActiveLowInputInverts ==
    (probe.layers = InputOverP /\ probe.op = "state") =>
        /\ probe.called = << "state", "none" >>
        /\ IF Failed(probe.presult)
               THEN probe.result = probe.presult
               ELSE /\ ~Failed(probe.result)
                    /\ probe.result.value = "HIGH" <=> probe.presult.value = "LOW"
                    /\ probe.result.value = "LOW" <=> probe.presult.value = "HIGH"

\* P was high and state() of Active_Low_Input_Pin<P> returned low
HighReadAsLow ==
    /\ probe.layers = InputOverP
    /\ probe.op = "state"
    /\ probe.presult = [ err |-> "none", value |-> "HIGH" ]
    /\ probe.result = [ err |-> "none", value |-> "LOW" ]

\* the operation of P and its argument that the output adapter calls
InvertedCall(op, arg) ==
    CASE op = "initialize"         -> << "initialize", IF arg = "HIGH" THEN "LOW" ELSE "HIGH" >>
      [] op = "transition_to_high" -> << "transition_to_low", "none" >>
      [] op = "transition_to_low"  -> << "transition_to_high", "none" >>
      [] op = "toggle"             -> << "toggle", "none" >>

OutputOperations == { "initialize", "transition_to_high", "transition_to_low", "toggle" }

\* C23: Active_Low_Output_Pin<P>: initialize(HIGH) calls P::initialize(LOW),
\* initialize(LOW) and initialize() call P::initialize(HIGH),
\* transition_to_high() calls P::transition_to_low(), transition_to_low() calls
\* P::transition_to_high(), toggle() calls P::toggle(); each returns what P's
\* operation returned.
ActiveLowOutputInverts ==
    (probe.layers = OutputOverP /\ probe.op \in OutputOperations) =>
        /\ probe.called = InvertedCall(probe.op, probe.arg)
        /\ probe.result = probe.presult

\* initialize() of Active_Low_Output_Pin<P> made P high
InitializedWithoutArgument ==
    /\ probe.layers = OutputOverP
    /\ probe.op = "initialize"
    /\ probe.arg = "default"
    /\ probe.called = << "initialize", "HIGH" >>
    /\ ~Failed(probe.result)
    /\ probe.level = "HIGH"

\* the last two calls of a pin of this class were op and state(), both
\* successful
ThenState(layers, op) ==
    /\ probe.layers = layers
    /\ probe.before.op = op
    /\ ~Failed(probe.before.result)
    /\ probe.op = "state"
    /\ ~Failed(probe.result)

ActiveLowIOInvertsBoth ==
    probe.layers = IOOverP =>
        /\ probe.op = "state" =>
               /\ probe.called = << "state", "none" >>
               /\ probe.result = IF Failed(probe.presult) THEN probe.presult
                                 ELSE [ err |-> "none", value |-> Opposite(probe.presult.value) ]
        /\ probe.op \in OutputOperations =>
               /\ probe.called = InvertedCall(probe.op, probe.arg)
               /\ probe.result = probe.presult

\* initialize(HIGH) of an Active_Low_IO_Pin<P> made P low, and state() then
\* returned high
InitializedHighReadHigh ==
    /\ probe.layers = IOOverP
    /\ probe.before.op = "initialize"
    /\ ~Failed(probe.before.result)
    /\ probe.op = "state"
    /\ probe.presult.value = "LOW"
    /\ probe.result.value = "HIGH"

\* ---------------------------------------------------------------------------
\* I2C device addresses

\* Address::Numeric::MAX
NumericMax == 127

\* an Address: the address in transmitted form
AddressOf(m_address) == [ m_address |-> m_address ]

\* Address(), Address( NUMERIC, address ), Address( TRANSMITTED, address )
AddressDefault == AddressOf(0)

\* Address( NUMERIC, address ) that keeps the bit shifted out of the byte
AddressFromNumericWide(address) == AddressOf(address * 2)

AddressFromNumeric(address) == AddressOf((address * 2) % (ByteMax + 1))

AddressFromTransmitted(address) == AddressOf(address)

\* transmitted form handed out as the numeric form
NumericUnshifted(a) == a.m_address

\* Address::numeric(), Address::transmitted()
Numeric(a) == a.m_address \div 2

Transmitted(a) == a.m_address

InvalidArgument == [ err |-> "INVALID_ARGUMENT", value |-> "none" ]

Value(v) == [ err |-> "none", value |-> v ]

\* make_address that accepts every byte
MakeAddressNumericUnchecked(address) == Value(AddressFromNumeric(address))

\* make_address( Address::NUMERIC, address )
MakeAddressNumeric(address) ==
    IF address > NumericMax THEN InvalidArgument
    ELSE Value(AddressFromNumeric(address))

\* make_address that accepts every byte
MakeAddressTransmittedUnchecked(address) == Value(AddressFromTransmitted(address))

\* make_address( Address::TRANSMITTED, address )
MakeAddressTransmitted(address) ==
    IF BitAnd(address, 1) # 0 THEN InvalidArgument
    ELSE Value(AddressFromTransmitted(address))

\* operator< that holds for equal addresses too
AddressLessOrSame(lhs, rhs) == Transmitted(lhs) <= Transmitted(rhs)

\* operator==, !=, <, >, <=, >=
AddressEqual(lhs, rhs) == Transmitted(lhs) = Transmitted(rhs)

AddressNotEqual(lhs, rhs) == ~AddressEqual(lhs, rhs)

AddressLess(lhs, rhs) == Transmitted(lhs) < Transmitted(rhs)

AddressGreater(lhs, rhs) == AddressLess(rhs, lhs)

AddressLessOrEqual(lhs, rhs) == ~AddressGreater(lhs, rhs)

AddressGreaterOrEqual(lhs, rhs) == ~AddressLess(lhs, rhs)

NoComparison ==
    [ eq |-> FALSE, ne |-> FALSE, lt |-> FALSE, gt |-> FALSE, le |-> FALSE, ge |-> FALSE ]

\* an address variable, default constructed, and nothing made yet
InitAddress ==
    /\ Unused
    /\ probe = [ fn |-> "address", op |-> "none", arg |-> 0, result |-> Value(AddressDefault),
                 lhs |-> AddressDefault, compared |-> NoComparison ]

\* the result of one call is used before the next call is made
Made(op, arg, result) ==
    /\ probe.fn = "address"
    /\ probe.op \in { "none", "assign" }
    /\ probe' = [ probe EXCEPT !.op = op, !.arg = arg, !.result = result,
                               !.compared = NoComparison ]
    /\ UNCHANGED deviceVars

MakeNumeric(address) == Made("make_numeric", address, MakeAddressNumeric(address))

MakeTransmitted(address) ==
    Made("make_transmitted", address, MakeAddressTransmitted(address))

\* Address{ Address::NUMERIC, address }, the constructor called directly
ConstructNumeric(address) ==
    Made("construct_numeric", address, Value(AddressFromNumeric(address)))

\* the address made is assigned to the variable
AssignAddress ==
    /\ probe.fn = "address"
    /\ ~Failed(probe.result)
    /\ probe' = [ probe EXCEPT !.op = "assign", !.lhs = probe.result.value,
                               !.compared = NoComparison ]
    /\ UNCHANGED deviceVars

\* the variable is compared with the address made
CompareAddresses ==
    /\ probe.fn = "address"
    /\ ~Failed(probe.result)
    /\ LET lhs == probe.lhs
           rhs == probe.result.value
       IN  probe' = [ probe EXCEPT !.op = "compare",
                          !.compared = [ eq |-> AddressEqual(lhs, rhs),
                                         ne |-> AddressNotEqual(lhs, rhs),
                                         lt |-> AddressLess(lhs, rhs),
                                         gt |-> AddressGreater(lhs, rhs),
                                         le |-> AddressLessOrEqual(lhs, rhs),
                                         ge |-> AddressGreaterOrEqual(lhs, rhs) ] ]
    /\ UNCHANGED deviceVars

\* the result, an error or an address compared, goes out of scope
DropResult ==
    /\ probe.fn = "address"
    /\ probe.op = "compare" \/ Failed(probe.result)
    /\ probe' = [ probe EXCEPT !.op = "none", !.arg = 0, !.result = Value(AddressDefault),
                               !.compared = NoComparison ]
    /\ UNCHANGED deviceVars

NextAddress ==
    \/ \E address \in Byte : MakeNumeric(address)
    \/ \E address \in Byte : MakeTransmitted(address)
    \/ \E address \in Byte : ConstructNumeric(address)
    \/ AssignAddress
    \/ CompareAddresses
    \/ DropResult

SpecAddress == InitAddress /\ [][NextAddress]_vars

\* C26: make_address( NUMERIC, a ) succeeds for a in 0..127 with an address
\* whose numeric() is a, and fails with INVALID_ARGUMENT, no address made, for
\* a above 127.
NumericAddressChecked ==
    probe.op = "make_numeric" =>
        IF probe.arg \in 0..127
            THEN /\ ~Failed(probe.result)
                 /\ Numeric(probe.result.value) = probe.arg
            ELSE probe.result = [ err |-> "INVALID_ARGUMENT", value |-> "none" ]

\* the greatest numeric address made
GreatestNumericMade ==
    /\ probe.op = "make_numeric"
    /\ probe.arg = 127
    /\ ~Failed(probe.result)
    /\ probe.result.value.m_address = 254

\* C27: make_address( TRANSMITTED, t ) fails with INVALID_ARGUMENT for t with
\* bit 0 set, and succeeds for t with bit 0 clear with an address whose
\* transmitted() is t.
TransmittedAddressChecked ==
    probe.op = "make_transmitted" =>
        IF probe.arg % 2 = 1
            THEN probe.result = [ err |-> "INVALID_ARGUMENT", value |-> "none" ]
            ELSE /\ ~Failed(probe.result)
                 /\ Transmitted(probe.result.value) = probe.arg

\* an even byte made an address
EvenByteMade ==
    /\ probe.op = "make_transmitted"
    /\ probe.arg = 254
    /\ ~Failed(probe.result)
    /\ Numeric(probe.result.value) = 127

\* C28: == holds exactly of addresses with equal transmitted bytes, < exactly
\* when the left transmitted byte is less than the right one; != is the
\* negation of ==, > is < with the sides exchanged, <= is < or ==, >= is > or
\* ==, and exactly one of <, ==, > holds.
AddressesOrderedByTransmitted ==
    probe.op = "compare" =>
        LET c == probe.compared
            l == probe.lhs.m_address
            r == probe.result.value.m_address
        IN  /\ c.eq <=> l = r
            /\ c.lt <=> l < r
            /\ c.ne <=> ~c.eq
            /\ c.gt <=> r < l
            /\ c.le <=> (c.lt \/ c.eq)
            /\ c.ge <=> (c.gt \/ c.eq)
            /\ Cardinality({ x \in { "lt", "eq", "gt" } : c[x] }) = 1

\* an address made from a numeric form compared greater than one made from a
\* lesser transmitted form
GreaterAcrossForms ==
    /\ probe.op = "compare"
    /\ probe.compared.lt
    /\ probe.lhs.m_address = 4
    /\ probe.result.value.m_address = 6

\* ---------------------------------------------------------------------------
\* The register cache on its own

\* initialize() that leaves the cache as it is
RegisterCacheInitializeKeeping(c) == c

\* Register_Cache::initialize()
RegisterCacheInitialize(c) == ResetState

\* the bytes cached
CachedValues == ByteValues \cup { ByteMax }

\* at most MaxCached registers of the cache are away from their defaults
MaxCached == 2

Cached(c) == { R \in Registers : c[R] # ResetValue(R) }

\* a cache after construction
InitCache ==
    /\ Unused
    /\ probe = [ fn |-> "cache", op |-> "none", reg |-> "none", val |-> 0, ret |-> 0,
                 was |-> ResetState ]

CacheStep(op, R, v, ret, c) ==
    /\ probe.fn = "cache"
    /\ Cardinality(Cached(c)) <= MaxCached
    /\ cache' = c
    /\ probe' = [ probe EXCEPT !.op = op, !.reg = R, !.val = v, !.ret = ret, !.was = cache ]
    /\ UNCHANGED << kind, dev, lastGood, last, pins, race, second >>

\* cache_R( value )
CallCacheSet(R, v) == CacheStep("cache", R, v, 0, CacheSet(cache, R, v))

\* R()
CallCacheGet(R) == CacheStep("get", R, 0, CacheGet(cache, R), cache)

\* initialize()
CallCacheInitialize == CacheStep("initialize", "none", 0, 0, RegisterCacheInitialize(cache))

NextCache ==
    \/ \E R \in Registers, v \in CachedValues : CallCacheSet(R, v)
    \/ \E R \in Registers : CallCacheGet(R)
    \/ CallCacheInitialize

SpecCache == InitCache /\ [][NextCache]_vars

\* C29: after initialize() of the register cache every register holds its
\* power-on-reset default, whatever the cache held before: direction 0xFF,
\* pull-up 0x00, every other register 0x00.
InitializeResetsEveryRegister ==
    probe.op = "initialize" =>
        /\ cache["IODIR"] = 255
        /\ cache["GPPU"] = 0
        /\ \A R \in Registers \ { "IODIR", "GPPU" } : cache[R] = 0

\* a cache with direction and pull-up away from their defaults initialized
OutputsAndPullUpsForgotten ==
    /\ probe.op = "initialize"
    /\ probe.was["IODIR"] = 0
    /\ probe.was["GPPU"] = 165
    /\ cache["IODIR"] = 255
    /\ cache["GPPU"] = 0

\* ---------------------------------------------------------------------------
\* Output streams

\* Stream::Mask
EndOfFileReachedMask == 1

IOErrorPresentMask == 2

FatalErrorPresentMask == 4

ErrorPresentMask == BitOr(IOErrorPresentMask, FatalErrorPresentMask)

\* error_present() that looks at the fatal error only
ErrorPresentFatalOnly(m_state) == BitAnd(m_state, FatalErrorPresentMask) # 0

\* Stream::error_present()
ErrorPresent(m_state) == BitAnd(m_state, ErrorPresentMask) # 0

\* the put overloads of Output_Stream, named by their parameters
PutOverloads ==
    { "char", "char const *, char const *", "char const *", "std::uint8_t",
      "std::uint8_t const *, std::uint8_t const *", "std::int8_t",
      "std::int8_t const *, std::int8_t const *" }

\* blocks and strings are at most MaxBlock long
MaxBlock == 2

Characters == { 65, 122 }

UnsignedBytes == { 0, ByteMax }

SignedBytes == { -128, 127 }

Blocks(S) == UNION { [ 1..n -> S ] : n \in 0..MaxBlock }

\* the data an overload can be called with
PutData(overload) ==
    CASE overload = "char" -> Characters
      [] overload = "char const *, char const *" -> Blocks(Characters \cup { 0 })
      [] overload = "char const *" -> Blocks(Characters)
      [] overload = "std::uint8_t" -> UnsignedBytes
      [] overload = "std::uint8_t const *, std::uint8_t const *" -> Blocks(UnsignedBytes)
      [] overload = "std::int8_t" -> SignedBytes
      [] overload = "std::int8_t const *, std::int8_t const *" -> Blocks(SignedBytes)

\* what a put of the stream buffer can return
BufferErrors == { "none", "MOCK_ERROR_1", "MOCK_ERROR_2" }

Degraded == [ err |-> "IO_STREAM_DEGRADED", value |-> "none" ]

\* what a call through a null buffer pointer can come to: nothing holds of it
NullBufferOutcomes ==
    { [ result |-> [ err |-> e, value |-> "none" ], calls |-> << >> ] :
          e \in BufferErrors \cup { "IO_STREAM_DEGRADED", "crash" } }

\* Output_Stream::put: the result returned and the calls made on the buffer,
\* returned being what the buffer's put returns
OutputStreamPut(m_state, overload, data, returned) ==
    IF ErrorPresent(m_state)
        THEN [ result |-> Degraded, calls |-> << >> ]
        ELSE [ result |-> returned, calls |-> << [ fn |-> overload, data |-> data ] >> ]

\* flush() that looks at the errors of the stream as put does
OutputStreamFlushGuarded(m_state, returned) ==
    IF ErrorPresent(m_state)
        THEN [ result |-> Degraded, calls |-> << >> ]
        ELSE [ result |-> returned, calls |-> << [ fn |-> "flush", data |-> 0 ] >> ]

\* Output_Stream::flush(): the result returned and the calls made on the
\* buffer, returned being what the buffer's flush returns
OutputStreamFlush(m_state, returned) ==
    [ result |-> returned, calls |-> << [ fn |-> "flush", data |-> 0 ] >> ]

\* an output stream after construction: nominal, no buffer set
InitStream ==
    /\ Unused
    /\ probe = [ fn |-> "stream", m_state |-> 0, m_buffer |-> FALSE, op |-> "none",
                 overload |-> "none", data |-> 0, returned |-> NoResult,
                 result |-> NoResult, calls |-> << >> ]

StreamStep(op, m_state, m_buffer) ==
    /\ probe.fn = "stream"
    /\ probe' = [ probe EXCEPT !.op = op, !.m_state = m_state, !.m_buffer = m_buffer,
                               !.overload = "none", !.data = 0, !.returned = NoResult,
                               !.result = NoResult, !.calls = << >> ]
    /\ UNCHANGED deviceVars

ReportIOError ==
    StreamStep("report_io_error", BitOr(probe.m_state, IOErrorPresentMask), probe.m_buffer)

ClearIOError ==
    StreamStep("clear_io_error", BitAnd(probe.m_state, BitNot(IOErrorPresentMask)),
               probe.m_buffer)

ReportFatalError ==
    StreamStep("report_fatal_error", BitOr(probe.m_state, FatalErrorPresentMask),
               probe.m_buffer)

ClearFatalError ==
    StreamStep("clear_fatal_error", BitAnd(probe.m_state, BitNot(FatalErrorPresentMask)),
               probe.m_buffer)

ReportEndOfFileReached ==
    StreamStep("report_end_of_file_reached", BitOr(probe.m_state, EndOfFileReachedMask),
               probe.m_buffer)

ClearEndOfFileReachedReport ==
    StreamStep("clear_end_of_file_reached_report",
               BitAnd(probe.m_state, BitNot(EndOfFileReachedMask)), probe.m_buffer)

SetBuffer(buffer) == StreamStep("set_buffer", probe.m_state, buffer)

PutReturned(overload, data, returned, r) ==
    /\ probe' = [ probe EXCEPT !.op = "put", !.overload = overload, !.data = data,
                               !.returned = returned, !.result = r.result,
                               !.calls = r.calls ]
    /\ UNCHANGED deviceVars

\* put of a stream whose buffer is set, or that does not reach its buffer
Put(overload, data, error) ==
    /\ probe.fn = "stream"
    /\ probe.m_buffer \/ ErrorPresent(probe.m_state)
    /\ LET returned == [ err |-> error, value |-> "none" ]
       IN  PutReturned(overload, data, returned,
                       OutputStreamPut(probe.m_state, overload, data, returned))

\* put of a stream that reaches a buffer that is not set
PutWithoutBuffer(overload, data) ==
    /\ probe.fn = "stream"
    /\ ~probe.m_buffer
    /\ ~ErrorPresent(probe.m_state)
    /\ \E r \in NullBufferOutcomes : PutReturned(overload, data, NoResult, r)

FlushReturned(returned, r) ==
    /\ probe' = [ probe EXCEPT !.op = "flush", !.overload = "none", !.data = 0,
                               !.returned = returned, !.result = r.result,
                               !.calls = r.calls ]
    /\ UNCHANGED deviceVars

\* flush of a stream whose buffer is set
Flush(error) ==
    /\ probe.fn = "stream"
    /\ probe.m_buffer
    /\ LET returned == [ err |-> error, value |-> "none" ]
       IN  FlushReturned(returned, OutputStreamFlush(probe.m_state, returned))

\* flush of a stream whose buffer is not set
FlushWithoutBuffer ==
    /\ probe.fn = "stream"
    /\ ~probe.m_buffer
    /\ \E r \in NullBufferOutcomes : FlushReturned(NoResult, r)

NextStream ==
    \/ ReportIOError
    \/ ClearIOError
    \/ ReportFatalError
    \/ ClearFatalError
    \/ ReportEndOfFileReached
    \/ ClearEndOfFileReachedReport
    \/ \E buffer \in BOOLEAN : SetBuffer(buffer)
    \/ \E overload \in PutOverloads : \E data \in PutData(overload) :
           \/ \E error \in BufferErrors : Put(overload, data, error)
           \/ PutWithoutBuffer(overload, data)
    \/ \E error \in BufferErrors : Flush(error)
    \/ FlushWithoutBuffer

SpecStream == InitStream /\ [][NextStream]_vars

\* C30: a put of an output stream with a buffer, whatever the overload: with
\* an I/O error or a fatal error present it returns IO_STREAM_DEGRADED and
\* calls nothing of the buffer; otherwise it calls the buffer's put of the
\* same overload once, with the same data, and returns what that returned.
PutGuardsThenForwards ==
    (probe.fn = "stream" /\ probe.op = "put" /\ probe.m_buffer) =>
        IF (probe.m_state \div 2) % 2 = 1 \/ (probe.m_state \div 4) % 2 = 1
            THEN /\ probe.result = [ err |-> "IO_STREAM_DEGRADED", value |-> "none" ]
                 /\ probe.calls = << >>
            ELSE /\ probe.calls = << [ fn |-> probe.overload, data |-> probe.data ] >>
                 /\ probe.result = probe.returned

\* a string put through a stream with nothing but end of file reported, the
\* error of the buffer returned
StringPutFailedInBuffer ==
    /\ probe.fn = "stream"
    /\ probe.op = "put"
    /\ probe.overload = "char const *"
    /\ probe.m_buffer
    /\ probe.m_state = 1
    /\ Len(probe.calls) = 1
    /\ probe.result.err = "MOCK_ERROR_1"

\* ---------------------------------------------------------------------------
\* SPI device selection guards

\* the objects of a scope: the Result make_device_selection_guard returns and
\* two guard variables
GuardSlots == { "result", "guard", "other" }

\* what select() and deselect() of the device selector can return
SelectorErrors == { "none", "MOCK_ERROR_1", "MOCK_ERROR_2" }

Calls(log, fn) == { i \in 1..Len(log) : log[i].fn = fn }

\* make_device_selection_guard that makes the guard whatever select() returned
MakeDeviceSelectionGuardUnchecked(error) ==
    [ calls |-> << [ fn |-> "select", res |-> error ] >>, err |-> "none",
      slot |-> "holding" ]

\* make_device_selection_guard( device_selector ), select() returning error:
\* the calls made, the error returned and what the Result holds
MakeDeviceSelectionGuard(error) ==
    [ calls |-> << [ fn |-> "select", res |-> error ] >>,
      err |-> error,
      slot |-> IF error = "none" THEN "holding" ELSE "error" ]

\* move construction that leaves the source as it was
GuardMovedFromKeeping(source) == source

\* the source of a move construction afterwards
GuardMovedFrom(source) == "empty"

\* ~Device_Selection_Guard(): the calls it makes, deselect() returning error
GuardDestructor(slot, error) ==
    IF slot = "holding" THEN << [ fn |-> "deselect", res |-> error ] >> ELSE << >>

\* a scope with a device selector and nothing else yet
InitGuard ==
    /\ Unused
    /\ probe = [ fn |-> "guard", op |-> "none", on |-> "none", was |-> "none",
                 slots |-> [ g \in GuardSlots |-> "none" ], made |-> FALSE,
                 err |-> "none", calls |-> << >>, did |-> << >> ]

GuardStep(op, on, slots, made, err, did) ==
    /\ probe.fn = "guard"
    /\ probe' = [ probe EXCEPT !.op = op, !.on = on, !.was = probe.slots[on],
                               !.slots = slots, !.made = made, !.err = err,
                               !.calls = probe.calls \o did, !.did = did ]
    /\ UNCHANGED deviceVars

MakeGuard(error) ==
    /\ ~probe.made
    /\ probe.slots["result"] = "none"
    /\ LET r == MakeDeviceSelectionGuard(error)
       IN  GuardStep("make", "result", [ probe.slots EXCEPT !["result"] = r.slot ],
                     TRUE, r.err, r.calls)

\* Device_Selection_Guard{}
ConstructDefaultGuard(g) ==
    /\ g # "result"
    /\ probe.slots[g] = "none"
    /\ GuardStep("construct", g, [ probe.slots EXCEPT ![g] = "empty" ], probe.made,
                 probe.err, << >>)

\* Device_Selection_Guard{ std::move( source ) }
ConstructMoveGuard(g, source) ==
    /\ g # "result"
    /\ g # source
    /\ probe.slots[g] = "none"
    /\ probe.slots[source] \in { "empty", "holding" }
    /\ GuardStep("move", g,
                 [ probe.slots EXCEPT ![g] = probe.slots[source],
                                      ![source] = GuardMovedFrom(probe.slots[source]) ],
                 probe.made, probe.err, << >>)

\* the object goes out of scope; an error of deselect() has nowhere to go
DestroyGuard(g, error) ==
    /\ probe.slots[g] \in { "empty", "holding", "error" }
    /\ probe.slots[g] # "holding" => error = "none"
    /\ GuardStep("destroy", g, [ probe.slots EXCEPT ![g] = "destroyed" ], probe.made,
                 probe.err, GuardDestructor(probe.slots[g], error))

NextGuard ==
    \/ \E error \in SelectorErrors : MakeGuard(error)
    \/ \E g \in GuardSlots : ConstructDefaultGuard(g)
    \/ \E g, source \in GuardSlots : ConstructMoveGuard(g, source)
    \/ \E g \in GuardSlots, error \in SelectorErrors : DestroyGuard(g, error)

SpecGuard == InitGuard /\ [][NextGuard]_vars

\* C31: make_device_selection_guard calls select() once; when select() failed
\* it returns that error, makes no guard, and deselect() is not called then
\* or later.
FailedSelectionMakesNoGuard ==
    (probe.fn = "guard" /\ probe.made) =>
        /\ Cardinality(Calls(probe.calls, "select")) = 1
        /\ probe.op = "make" => probe.did = << [ fn |-> "select", res |-> probe.calls[Len(probe.calls)].res ] >>
        /\ LET selected == probe.calls[CHOOSE i \in Calls(probe.calls, "select") : TRUE].res
           IN  selected # "none" =>
                   /\ probe.err = selected
                   /\ \A g \in GuardSlots : probe.slots[g] # "holding"
                   /\ Calls(probe.calls, "deselect") = { }

\* select() failed and the Result with the error went out of scope, beside a
\* guard default constructed and destroyed
FailedSelectionDropped ==
    /\ probe.fn = "guard"
    /\ probe.err = "MOCK_ERROR_1"
    /\ probe.slots["result"] = "destroyed"
    /\ probe.slots["guard"] = "destroyed"
    /\ Len(probe.calls) = 1

\* C32: after a successful make_device_selection_guard deselect() is called
\* once, by the destructor of the guard holding the selection then, and not
\* while a guard holds it; the destructor of a guard moved from or default
\* constructed calls nothing, and the destructor returns nothing whatever
\* deselect() returned.
DeselectedOnceByLastHolder ==
    probe.fn = "guard" =>
        /\ Cardinality(Calls(probe.calls, "deselect")) =
               IF probe.made /\ probe.err = "none"
                      /\ \A g \in GuardSlots : probe.slots[g] # "holding"
                   THEN 1 ELSE 0
        /\ probe.op = "destroy" =>
               IF probe.was = "holding"
                   THEN /\ Len(probe.did) = 1
                        /\ probe.did[1].fn = "deselect"
                   ELSE probe.did = << >>
        /\ probe.op # "destroy" => Calls(probe.did, "deselect") = { }

\* the guard moved out of the Result was destroyed after the Result, and its
\* deselect() failed
MovedGuardDeselectFailed ==
    /\ probe.fn = "guard"
    /\ probe.op = "destroy"
    /\ probe.on = "guard"
    /\ probe.was = "holding"
    /\ probe.slots["result"] = "destroyed"
    /\ probe.calls = << [ fn |-> "select", res |-> "none" ],
                        [ fn |-> "deselect", res |-> "MOCK_ERROR_2" ] >>

\* ---------------------------------------------------------------------------
\* Push_Pull_IO_Pin: the level operations

LevelOperations == { "transition_to_high", "transition_to_low", "toggle" }

\* the last operation was a level operation of a Push_Pull_IO_Pin with a driver
LevelOperationDone(l) ==
    /\ kind = "ppio"
    /\ l.op \in LevelOperations
    /\ l.was.driver = "D"

\* C33: transition_to_high, transition_to_low and toggle of a Push_Pull_IO_Pin
\* make one cached read of the level register, without a bus call, and one
\* write of the level register, of the byte read with the pin's bits set,
\* cleared or inverted; no forced read is made, and the direction and pull-up
\* registers are as before in the device and in the cache.
LevelOperationWritesLevelOnly ==
    [][ LevelOperationDone(last') =>
            /\ Len(last'.calls) = 2
            /\ last'.calls[1].fn = "get"
            /\ last'.calls[1].reg = "GPIO"
            /\ last'.calls[1].bus = << >>
            /\ last'.calls[1].val = cache["GPIO"]
            /\ last'.calls[2].fn = "write"
            /\ last'.calls[2].reg = "GPIO"
            /\ last'.calls[2].val =
                   CASE last'.op = "transition_to_high" -> BitOr(cache["GPIO"], last'.was.mask)
                     [] last'.op = "transition_to_low" ->
                            BitAnd(cache["GPIO"], ByteMax - last'.was.mask)
                     [] last'.op = "toggle" -> BitXor(cache["GPIO"], last'.was.mask)
            /\ \A R \in { "IODIR", "GPPU" } : dev'[R] = dev[R] /\ cache'[R] = cache[R] ]_vars

\* a pin toggled beside an output pin with its pull-up register written
ToggledBesideOutput ==
    /\ LevelOperationDone(last)
    /\ last.op = "toggle"
    /\ last.res = "ok"
    /\ dev["IODIR"] # ByteMax
    /\ dev["GPIO"] # 0

\* ---------------------------------------------------------------------------
\* A handle move-assigned to itself

SelfAssigned(l) == l.op = "assign_move" /\ l.src = l.pin

\* C34: the move assignment of a pin to itself makes no driver call and leaves
\* devices, caches and the pin as they were: a pin with a driver keeps driver
\* and mask, and its destructor makes the teardown calls for them once; a pin
\* without a driver stays without, and its destructor makes no call.
SelfAssignmentChangesNothing ==
    [][ /\ SelfAssigned(last') =>
               /\ last'.calls = << >>
               /\ dev' = dev
               /\ cache' = cache
               /\ second' = second
               /\ pins' = pins
        /\ (SelfAssigned(last) /\ last'.op = "destroy" /\ last'.pin = last.pin) =>
               IF last.was.driver = "none"
                   THEN last'.calls = << >>
                   ELSE /\ last'.was.driver = last.was.driver
                        /\ TeardownCalls(last'.calls, last.was.mask) ]_vars

\* a pin driven high was assigned to itself
DrivenPinSelfAssigned ==
    /\ SelfAssigned(last)
    /\ last.was.driver = "D"
    /\ pins[last.pin] = last.was
    /\ kind = "ppio"
    /\ dev["GPIO"] # 0

\* ---------------------------------------------------------------------------
\* The lifetime of an attachment

\* the handles holding the driver with the mask m
Holders(ps, m) == { h \in Handles : ps[h].driver = "D" /\ ps[h].mask = m }

\* the operation l was the explicit construction of a pin with the mask m
Attached(l, ps, m) == l.op = "construct" /\ ps[l.pin].mask = m

\* the operation l made the teardown calls for the driver with the mask m
TornDown(l, m) ==
    /\ l.op \in { "destroy", "assign_move" }
    /\ l.was.driver = "D"
    /\ l.was.mask = m
    /\ TeardownCalls(l.calls, m)

\* C35: in every step of the life of the handles, the handles holding a
\* driver and a mask are one more after the explicit construction with them,
\* one fewer after an operation that made their teardown calls, and as many
\* as before after any other operation, so that a teardown is made once for
\* each construction; an operation of a handle without a driver makes no
\* driver call; and a handle moved from or destroyed is without a driver.
AttachmentTornDownOnce ==
    [][ /\ \A m \in Masks :
               Cardinality(Holders(pins', m)) =
                   Cardinality(Holders(pins, m))
                       + (IF Attached(last', pins', m) THEN 1 ELSE 0)
                       - (IF TornDown(last', m) THEN 1 ELSE 0)
        /\ last'.was.driver = "none" => last'.calls = << >>
        /\ last'.op = "destroy" =>
               /\ ~pins'[last'.pin].alive
               /\ pins'[last'.pin].driver = "none"
        /\ (last'.op \in { "construct_move", "assign_move" } /\ last'.src # last'.pin) =>
               pins'[last'.src].driver = "none" ]_vars

\* a pin was built from the only holder of a driver and a mask, which is
\* alive and without them
OnlyHolderMoved ==
    /\ last.op = "construct_move"
    /\ last.arg.driver = "D"
    /\ last.arg.mask # 0
    /\ Holders(pins, last.arg.mask) = { last.pin }
    /\ pins[last.src].alive

\* ---------------------------------------------------------------------------
\* The register cache: what is cached is what is returned

\* C36: cache_R( v ) leaves R at v and every other register of the cache as it
\* was; R() returns what the cache holds for R, that is v straight after
\* cache_R( v ), and leaves the cache as it was; neither reaches the device.
CachedIsReturned ==
    [][ probe'.fn = "cache" =>
            /\ probe'.op = "cache" =>
                   /\ cache'[probe'.reg] = probe'.val
                   /\ \A R \in Registers \ { probe'.reg } : cache'[R] = cache[R]
            /\ probe'.op = "get" =>
                   /\ cache' = cache
                   /\ probe'.ret = cache[probe'.reg]
                   /\ (probe.op = "cache" /\ probe.reg = probe'.reg) =>
                          probe'.ret = probe.val
            /\ dev' = dev ]_vars

\* the level register read back from a cache that holds a direction as well
LevelReadBack ==
    /\ probe.fn = "cache"
    /\ probe.op = "get"
    /\ probe.reg = "GPIO"
    /\ probe.ret = 165
    /\ cache["IODIR"] = 0
    /\ cache["OLAT"] = 0

\* ---------------------------------------------------------------------------
\* Stream buffers: the put of a null-terminated string

\* the memory a string pointer points into: characters, the terminator, and
\* whatever lies behind it
Strings ==
    { b \o << 0 >> \o t : b \in Blocks(Characters),
                          t \in { << >> } \cup { << c >> : c \in Characters } }

\* the put( char ) call that fails: none (0), one of the string, one past it
PutFailures == 0..(MaxBlock + 1)

\* put( string ) that goes on after a failed put( character )
RECURSIVE StreamBufferPutStringThrough(_, _, _, _, _)
StreamBufferPutStringThrough(string, i, failAt, error, calls) ==
    IF string[i] = 0 THEN [ calls |-> calls, result |-> [ err |-> "none", value |-> "none" ] ]
    ELSE StreamBufferPutStringThrough(string, i + 1, failAt, error, Append(calls, string[i]))

\* Stream_Buffer::put( char const * string ), string pointing at string[i]:
\* the characters handed to put( char ) and the result; the failAt-th
\* put( char ) returns error
RECURSIVE StreamBufferPutString(_, _, _, _, _)
StreamBufferPutString(string, i, failAt, error, calls) ==
    IF string[i] = 0 THEN [ calls |-> calls, result |-> [ err |-> "none", value |-> "none" ] ]
    ELSE IF Len(calls) + 1 = failAt
        THEN [ calls |-> Append(calls, string[i]),
               result |-> [ err |-> error, value |-> "none" ] ]
    ELSE StreamBufferPutString(string, i + 1, failAt, error, Append(calls, string[i]))

InitBuffer ==
    /\ Unused
    /\ probe = [ fn |-> "buffer", op |-> "none", string |-> << 0 >>, failAt |-> 0,
                 error |-> "none", calls |-> << >>, result |-> NoResult ]

PutString(string, failAt, error) ==
    /\ probe.fn = "buffer"
    /\ failAt = 0 <=> error = "none"
    /\ LET r == StreamBufferPutString(string, 1, failAt, error, << >>)
       IN  probe' = [ probe EXCEPT !.op = "put", !.string = string, !.failAt = failAt,
                                   !.error = error, !.calls = r.calls,
                                   !.result = r.result ]
    /\ UNCHANGED deviceVars

NextBuffer ==
    \E string \in Strings, failAt \in PutFailures, error \in BufferErrors :
        PutString(string, failAt, error)

SpecBuffer == InitBuffer /\ [][NextBuffer]_vars

\* the characters of the string before its terminator
StringLength(string) ==
    (CHOOSE i \in 1..Len(string) : string[i] = 0 /\ \A j \in 1..(i - 1) : string[j] # 0) - 1

\* C37: put( string ) of a stream buffer hands the characters of the string
\* to put( char ) one by one, in order, up to the terminator; when a
\* put( char ) fails it hands on no further character and returns that error;
\* otherwise it returns success, and for the empty string it calls nothing.
StringPutStopsAtFirstError ==
    (probe.fn = "buffer" /\ probe.op = "put") =>
        LET n == StringLength(probe.string)
            failed == probe.failAt \in 1..n
            put == IF failed THEN probe.failAt ELSE n
        IN  /\ probe.calls = [ i \in 1..put |-> probe.string[i] ]
            /\ probe.result.err = IF failed THEN probe.error ELSE "none"
            /\ n = 0 => (probe.calls = << >> /\ probe.result.err = "none")

\* the first character of a string of two failed
FirstCharacterFailed ==
    /\ probe.fn = "buffer"
    /\ probe.op = "put"
    /\ probe.string = << 65, 122, 0 >>
    /\ probe.failAt = 1
    /\ probe.calls = << 65 >>
    /\ probe.result.err = "MOCK_ERROR_1"

\* ---------------------------------------------------------------------------
\* Output streams: flush

\* C38: flush() of an output stream with a buffer calls the buffer's flush()
\* once and returns what it returned, with or without an I/O error or a fatal
\* error present; IO_STREAM_DEGRADED is returned only if the buffer returned it.
FlushIgnoresStreamErrors ==
    (probe.fn = "stream" /\ probe.op = "flush" /\ probe.m_buffer) =>
        /\ probe.calls = << [ fn |-> "flush", data |-> 0 ] >>
        /\ probe.result = probe.returned
        /\ probe.result.err = "IO_STREAM_DEGRADED" => probe.returned.err = "IO_STREAM_DEGRADED"

\* a stream with an I/O error and a fatal error flushed
DegradedStreamFlushed ==
    /\ probe.fn = "stream"
    /\ probe.op = "flush"
    /\ probe.m_buffer
    /\ probe.m_state = 6
    /\ Len(probe.calls) = 1
    /\ probe.result.err = "none"

\* ---------------------------------------------------------------------------
\* I2C device addresses constructed without validation

\* C39: Address( NUMERIC, a ) holds the low byte of a << 1: its transmitted()
\* has bit 0 clear, its numeric() is a mod 128, and for a in 128..255 it is
\* equal to Address( NUMERIC, a - 128 ).
UnvalidatedNumericWraps ==
    (probe.fn = "address" /\ probe.op = "construct_numeric") =>
        LET a == probe.arg
            made == probe.result.value
        IN  /\ Transmitted(made) = (a * 2) % 256
            /\ Transmitted(made) % 2 = 0
            /\ Numeric(made) = a % 128
            /\ a \in 128..255 =>
                   /\ AddressEqual(made, AddressFromNumeric(a - 128))
                   /\ Transmitted(made) = 2 * (a - 128)

\* the numeric address 200 constructed: it is the address 72
NumericAbove127Constructed ==
    /\ probe.fn = "address"
    /\ probe.op = "construct_numeric"
    /\ probe.arg = 200
    /\ probe.result.value.m_address = 144

====
